---------------------------- MODULE Spec2Model ----------------------------
(***************************************************************************)
(* Model of hw02/matrix.py: the SparseMatrix class (a dict from (row, col) *)
(* to a non-zero integer, with declared Rows and Colu), its parser         *)
(* read_from_file, its accessors, add / subtract / multiply, its           *)
(* serialisation and the process_file pipeline the batch driver calls.     *)
(*                                                                         *)
(* A matrix is a record [Rows, Colu, elements]; elements is a function     *)
(* whose domain is the set of stored keys <<row, col>> (a Python dict;     *)
(* the claims checked here do not depend on the dict's iteration order).   *)
(* Python integers are unbounded, and so are the integers of the model.    *)
(***************************************************************************)
EXTENDS Integers, Sequences, FiniteSets, TLC

VARIABLES
    opA, opB, alg,      \* SpecAlgebra: the operands, and the calls made on them
    txtA, txtB, txt,    \* SpecText: two input texts, and what was made of them
    processor, fs, last, \* SpecPipeline: the reused object, the files, the last call
    objects, log, made   \* Spec: the objects, the last call, what each result is made from

\* What each specification leaves alone: the variables of the other three.
notAlgebra == <<txtA, txtB, txt, processor, fs, last, objects, log, made>>
notText == <<opA, opB, alg, processor, fs, last, objects, log, made>>
notPipeline == <<opA, opB, alg, txtA, txtB, txt, objects, log, made>>
notObjects == <<opA, opB, alg, txtA, txtB, txt, processor, fs, last>>
vars == <<opA, opB, alg, txtA, txtB, txt, processor, fs, last, objects, log, made>>

Unused == "unused"

-----------------------------------------------------------------------------
(* Bounds of the model *)

\* Largest row / column index of an entry the inputs are drawn with.
MaxCoord == 1

\* Declared dimensions the inputs are drawn with.
Dims == {1, 2}

\* Non-zero values the inputs are drawn with.
Vals == {-1, 1}

\* Number of stored entries of an input matrix.
NnzRange == 0..2

-----------------------------------------------------------------------------
(* SparseMatrix: construction and accessors *)

EmptyDict == [k \in {} |-> 0]

\* SparseMatrix.__init__
SparseMatrixInit == [Rows |-> 0, Colu |-> 0, elements |-> EmptyDict]

\* self.elements.get((currRow, currCol), 0)
getElement(self, currRow, currCol) ==
    IF <<currRow, currCol>> \in DOMAIN self.elements
    THEN self.elements[<<currRow, currCol>>]
    ELSE 0

\* A setter that stores whatever it is given, zero included.
setElementStoreZero(self, currRow, currCol, value) ==
    [self EXCEPT !.elements =
        [k \in (DOMAIN @) \cup {<<currRow, currCol>>} |->
            IF k = <<currRow, currCol>> THEN value ELSE @[k]]]

\* if value != 0: store; elif key in elements: del
setElement(self, currRow, currCol, value) ==
    IF value # 0
    THEN [self EXCEPT !.elements =
            [k \in (DOMAIN @) \cup {<<currRow, currCol>>} |->
                IF k = <<currRow, currCol>> THEN value ELSE @[k]]]
    ELSE IF <<currRow, currCol>> \in DOMAIN self.elements
         THEN [self EXCEPT !.elements =
                 [k \in (DOMAIN @) \ {<<currRow, currCol>>} |-> @[k]]]
         ELSE self

-----------------------------------------------------------------------------
(* Errors: every failure of the class is a ValueError, told apart by its   *)
(* message.                                                                *)

NoError == "none"
FormatError == "Input file has wrong format"
AddMismatch == "Matrices dimensions do not match for addition"
SubtractMismatch == "Matrices dimensions do not match for subtraction"
MultiplyMismatch == "Matrices dimensions do not match for multiplication"
InvalidOperation == "Invalid operation"

\* The value of a call that raised: no matrix is returned.
NoMatrix == [none |-> TRUE]

Raised(msg) == [err |-> msg, result |-> NoMatrix]
Returned(m) == [err |-> NoError, result |-> m]

-----------------------------------------------------------------------------
(* Arithmetic.  Objects live in a heap, a sequence of matrices indexed by  *)
(* their identity; self, other and result are identities, so that a call   *)
(* with self = other, and every write through result, is what it is in     *)
(* the program.  A call returns the heap after it, the error raised, and   *)
(* the identity of the returned object (0 when it raised).                 *)

Raises(heap, msg) == [heap |-> heap, err |-> msg, result |-> 0]

\* result = SparseMatrix(); result.Rows = rows; result.Colu = cols
NewResult(heap, rows, cols) ==
    Append(heap, [SparseMatrixInit EXCEPT !.Rows = rows, !.Colu = cols])

\* for key in all_keys: result.setElement(key, self.get(key) + other.get(key))
RECURSIVE addLoop(_, _, _, _, _)
addLoop(heap, self, other, result, keys) ==
    IF keys = {} THEN heap
    ELSE LET key == CHOOSE k \in keys : TRUE
         IN addLoop([heap EXCEPT ![result] =
                        setElement(@, key[1], key[2],
                                   getElement(heap[self], key[1], key[2])
                                     + getElement(heap[other], key[1], key[2]))],
                    self, other, result, keys \ {key})

\* An addition that walks only the keys of self.
addSelfKeysOnly(heap, self, other) ==
    IF heap[self].Rows # heap[other].Rows \/ heap[self].Colu # heap[other].Colu
    THEN Raises(heap, AddMismatch)
    ELSE [heap |-> addLoop(NewResult(heap, heap[self].Rows, heap[self].Colu),
                           self, other, Len(heap) + 1, DOMAIN heap[self].elements),
          err |-> NoError,
          result |-> Len(heap) + 1]

\* An addition that writes the sums into self and returns it.
addIntoSelf(heap, self, other) ==
    IF heap[self].Rows # heap[other].Rows \/ heap[self].Colu # heap[other].Colu
    THEN Raises(heap, AddMismatch)
    ELSE [heap |-> addLoop(heap, self, other, self,
                           (DOMAIN heap[self].elements) \cup (DOMAIN heap[other].elements)),
          err |-> NoError,
          result |-> self]

\* SparseMatrix.add
add(heap, self, other) ==
    IF heap[self].Rows # heap[other].Rows \/ heap[self].Colu # heap[other].Colu
    THEN Raises(heap, AddMismatch)
    ELSE [heap |-> addLoop(NewResult(heap, heap[self].Rows, heap[self].Colu),
                           self, other, Len(heap) + 1,
                           (DOMAIN heap[self].elements) \cup (DOMAIN heap[other].elements)),
          err |-> NoError,
          result |-> Len(heap) + 1]

\* for key in all_keys: result.setElement(key, self.get(key) - other.get(key))
RECURSIVE subtractLoop(_, _, _, _, _)
subtractLoop(heap, self, other, result, keys) ==
    IF keys = {} THEN heap
    ELSE LET key == CHOOSE k \in keys : TRUE
         IN subtractLoop([heap EXCEPT ![result] =
                             setElement(@, key[1], key[2],
                                        getElement(heap[self], key[1], key[2])
                                          - getElement(heap[other], key[1], key[2]))],
                         self, other, result, keys \ {key})

\* A subtraction that checks the row counts alone.
subtractChecksRowsOnly(heap, self, other) ==
    IF heap[self].Rows # heap[other].Rows
    THEN Raises(heap, SubtractMismatch)
    ELSE [heap |-> subtractLoop(NewResult(heap, heap[self].Rows, heap[self].Colu),
                                self, other, Len(heap) + 1,
                                (DOMAIN heap[self].elements) \cup (DOMAIN heap[other].elements)),
          err |-> NoError,
          result |-> Len(heap) + 1]

\* SparseMatrix.subtract
subtract(heap, self, other) ==
    IF heap[self].Rows # heap[other].Rows \/ heap[self].Colu # heap[other].Colu
    THEN Raises(heap, SubtractMismatch)
    ELSE [heap |-> subtractLoop(NewResult(heap, heap[self].Rows, heap[self].Colu),
                                self, other, Len(heap) + 1,
                                (DOMAIN heap[self].elements) \cup (DOMAIN heap[other].elements)),
          err |-> NoError,
          result |-> Len(heap) + 1]

\* A column sweep that stores each product over the total accumulated so far.
RECURSIVE multiplyColumnsOverwrite(_, _, _, _, _, _, _)
multiplyColumnsOverwrite(heap, self, other, result, i, k, j) ==
    IF j >= heap[other].Colu THEN heap
    ELSE multiplyColumnsOverwrite(
             [heap EXCEPT ![result] =
                 setElement(@, i, j,
                            getElement(heap[self], i, k) * getElement(heap[other], k, j))],
             self, other, result, i, k, j + 1)

\* for j in range(other.Colu): result.setElement(i, j, result.get(i, j) + ...)
RECURSIVE multiplyColumns(_, _, _, _, _, _, _)
multiplyColumns(heap, self, other, result, i, k, j) ==
    IF j >= heap[other].Colu THEN heap
    ELSE multiplyColumns(
             [heap EXCEPT ![result] =
                 setElement(@, i, j,
                            getElement(heap[result], i, j)
                              + getElement(heap[self], i, k) * getElement(heap[other], k, j))],
             self, other, result, i, k, j + 1)

\* for (i, k) in self.elements.keys(): sweep the columns of other.  The keys
\* are those self holds when the loop starts.
RECURSIVE multiplyLoop(_, _, _, _, _)
multiplyLoop(heap, self, other, result, keys) ==
    IF keys = {} THEN heap
    ELSE LET key == CHOOSE k \in keys : TRUE
         IN multiplyLoop(multiplyColumns(heap, self, other, result, key[1], key[2], 0),
                         self, other, result, keys \ {key})

\* SparseMatrix.multiply
multiply(heap, self, other) ==
    IF heap[self].Colu # heap[other].Rows
    THEN Raises(heap, MultiplyMismatch)
    ELSE [heap |-> multiplyLoop(NewResult(heap, heap[self].Rows, heap[other].Colu),
                                self, other, Len(heap) + 1, DOMAIN heap[self].elements),
          err |-> NoError,
          result |-> Len(heap) + 1]

\* A call on two objects of a heap that holds nothing else: the error raised
\* and the matrix returned.
Outcome(call) ==
    IF call.err # NoError THEN Raised(call.err) ELSE Returned(call.heap[call.result])

addOf(a, b) == Outcome(add(<<a, b>>, 1, 2))

subtractOf(a, b) == Outcome(subtract(<<a, b>>, 1, 2))

multiplyOf(a, b) == Outcome(multiply(<<a, b>>, 1, 2))

-----------------------------------------------------------------------------
(* Text.  A string is a sequence of one-character strings; a file is the   *)
(* string of its content.  The characters of the model are the ones of the *)
(* file format, a letter that belongs to no token, and the sign "+".       *)

Digits == {"0", "1", "2", "3", "4", "5", "6", "7", "8", "9"}

DigitChars == <<"0", "1", "2", "3", "4", "5", "6", "7", "8", "9">>

DigitValue(c) == (CHOOSE i \in 1..10 : DigitChars[i] = c) - 1

\* What str.strip() removes and int() skips, among the model's characters.
Whitespace == {" ", "\t", "\n"}

\* The first position from i on whose character is not in set.
RECURSIVE SkipWhile(_, _, _)
SkipWhile(s, i, set) ==
    IF i <= Len(s) /\ s[i] \in set THEN SkipWhile(s, i + 1, set) ELSE i

At(s, i, c) == i <= Len(s) /\ s[i] = c

\* The first position from i on that holds c, Len(s) + 1 when none does.
RECURSIVE Find(_, _, _)
Find(s, i, c) ==
    IF i <= Len(s) /\ s[i] # c THEN Find(s, i + 1, c) ELSE i

\* The last position up to i whose character is not in set.
RECURSIVE SkipBack(_, _, _)
SkipBack(s, i, set) ==
    IF i >= 1 /\ s[i] \in set THEN SkipBack(s, i - 1, set) ELSE i

\* str.strip()
strip(s) == SubSeq(s, SkipWhile(s, 1, Whitespace), SkipBack(s, Len(s), Whitespace))

\* The value of a string of decimal digits.
RECURSIVE DigitsToInt(_)
DigitsToInt(s) ==
    IF s = <<>> THEN 0
    ELSE 10 * DigitsToInt(SubSeq(s, 1, Len(s) - 1)) + DigitValue(s[Len(s)])

\* The decimal digits of n >= 0, as an f-string writes them.
RECURSIVE NatToStr(_)
NatToStr(n) ==
    IF n < 10 THEN <<DigitChars[n + 1]>>
    ELSE NatToStr(n \div 10) \o <<DigitChars[(n % 10) + 1]>>

\* f"{n}"
IntToStr(n) == IF n < 0 THEN <<"-">> \o NatToStr(-n) ELSE NatToStr(n)

Failed == [ok |-> FALSE, value |-> 0]

\* int(s): surrounding whitespace, an optional sign, decimal digits.
int(s) ==
    LET t == strip(s)
        signed == Len(t) >= 1 /\ t[1] \in {"+", "-"}
        digits == IF signed THEN SubSeq(t, 2, Len(t)) ELSE t
    IN IF digits # <<>> /\ \A i \in 1..Len(digits) : digits[i] \in Digits
       THEN [ok |-> TRUE,
             value |-> IF signed /\ t[1] = "-" THEN -DigitsToInt(digits)
                       ELSE DigitsToInt(digits)]
       ELSE Failed

\* int(line.split('=')[1]): the text between the first "=" and the next one
\* (or the end); no "=" is an IndexError, no integer a ValueError.
HeaderInt(line) ==
    LET first == Find(line, 1, "=")
        next == Find(line, first + 1, "=")
    IN IF first > Len(line) THEN Failed
       ELSE int(SubSeq(line, first + 1, next - 1))

\* file.readlines(): the lines, each with the "\n" that ends it.
RECURSIVE readlines(_)
readlines(s) ==
    IF s = <<>> THEN <<>>
    ELSE LET nl == Find(s, 1, "\n")
         IN IF nl > Len(s) THEN <<s>>
            ELSE <<SubSeq(s, 1, nl)>> \o readlines(SubSeq(s, nl + 1, Len(s)))

\* What \s matches inside a stripped line.
RegexSpace == {" ", "\t"}

NoMatch == [matched |-> FALSE, row |-> 0, col |-> 0, value |-> 0, stop |-> 0]

\* re.match(r'\((\d+),\s*(\d+),\s*(-?\d+)\)', line): the pattern is matched
\* from the start of the line; what follows the match is not looked at.
\* stop is the position after the match.
reMatch(line) ==
    LET rowEnd == SkipWhile(line, 2, Digits)
        colStart == SkipWhile(line, rowEnd + 1, RegexSpace)
        colEnd == SkipWhile(line, colStart, Digits)
        signAt == SkipWhile(line, colEnd + 1, RegexSpace)
        valStart == IF At(line, signAt, "-") THEN signAt + 1 ELSE signAt
        valEnd == SkipWhile(line, valStart, Digits)
    IN IF /\ At(line, 1, "(")
          /\ rowEnd > 2
          /\ At(line, rowEnd, ",")
          /\ colEnd > colStart
          /\ At(line, colEnd, ",")
          /\ valEnd > valStart
          /\ At(line, valEnd, ")")
       THEN [matched |-> TRUE,
             row |-> DigitsToInt(SubSeq(line, 2, rowEnd - 1)),
             col |-> DigitsToInt(SubSeq(line, colStart, colEnd - 1)),
             value |-> IF valStart > signAt
                       THEN -DigitsToInt(SubSeq(line, valStart, valEnd - 1))
                       ELSE DigitsToInt(SubSeq(line, valStart, valEnd - 1)),
             stop |-> valEnd + 1]
       ELSE NoMatch

\* A file that does not exist: open() raises.
NoFile == <<"no file">>

\* for line in lines[2:]: blank lines are skipped, a matched line is set, and
\* the first other line raises, with what was set so far left in self.
RECURSIVE readEntries(_, _, _)
readEntries(self, lines, n) ==
    IF n > Len(lines) THEN [self |-> self, err |-> NoError]
    ELSE LET line == strip(lines[n])
             match == reMatch(line)
         IN IF line = <<>> THEN readEntries(self, lines, n + 1)
            ELSE IF match.matched
                 THEN readEntries(setElement(self, match.row, match.col, match.value),
                                  lines, n + 1)
                 ELSE [self |-> self, err |-> FormatError]

\* A parser that keeps the entries self held before the call.
read_from_fileKeepsEntries(self, file) ==
    IF file = NoFile THEN [self |-> self, err |-> FormatError]
    ELSE LET lines == readlines(file)
             rows == IF Len(lines) >= 1 THEN HeaderInt(lines[1]) ELSE Failed
             cols == IF Len(lines) >= 2 THEN HeaderInt(lines[2]) ELSE Failed
         IN IF ~rows.ok THEN [self |-> self, err |-> FormatError]
            ELSE IF ~cols.ok
                 THEN [self |-> [self EXCEPT !.Rows = rows.value], err |-> FormatError]
                 ELSE readEntries([self EXCEPT !.Rows = rows.value, !.Colu = cols.value],
                                  lines, 3)

\* SparseMatrix.read_from_file: self after the call, and the error raised.
\* Every exception inside the try is raised again as the format error.
read_from_file(self, file) ==
    LET cleared == [self EXCEPT !.elements = EmptyDict]
    IN IF file = NoFile THEN [self |-> cleared, err |-> FormatError]
       ELSE LET lines == readlines(file)
                rows == IF Len(lines) >= 1 THEN HeaderInt(lines[1]) ELSE Failed
                cols == IF Len(lines) >= 2 THEN HeaderInt(lines[2]) ELSE Failed
            IN IF ~rows.ok THEN [self |-> cleared, err |-> FormatError]
               ELSE IF ~cols.ok
                    THEN [self |-> [cleared EXCEPT !.Rows = rows.value],
                          err |-> FormatError]
                    ELSE readEntries([cleared EXCEPT !.Rows = rows.value,
                                                     !.Colu = cols.value],
                                     lines, 3)

\* The keys of a dict in the order the dict yields them.
RECURSIVE KeysInOrder(_)
KeysInOrder(keys) ==
    IF keys = {} THEN <<>>
    ELSE LET key == CHOOSE k \in keys : TRUE
         IN <<key>> \o KeysInOrder(keys \ {key})

\* f"({i}, {j}, {value})"
EntryLine(i, j, value) ==
    <<"(">> \o IntToStr(i) \o <<",", " ">> \o IntToStr(j) \o <<",", " ">>
            \o IntToStr(value) \o <<")">>

\* A join that puts nothing between the lines.
RECURSIVE joinLinesNoSeparator(_)
joinLinesNoSeparator(output) ==
    IF output = <<>> THEN <<>>
    ELSE output[1] \o joinLinesNoSeparator(Tail(output))

\* '\n'.join(output)
RECURSIVE joinLines(_)
joinLines(output) ==
    IF output = <<>> THEN <<>>
    ELSE IF Len(output) = 1 THEN output[1]
         ELSE output[1] \o <<"\n">> \o joinLines(Tail(output))

\* SparseMatrix.__str__
str(self) ==
    LET keys == KeysInOrder(DOMAIN self.elements)
    IN joinLines([n \in 1..Len(keys) |->
                    EntryLine(keys[n][1], keys[n][2], self.elements[keys[n]])])

\* What process_file writes to the output file.
writeResult(result) ==
    <<"r", "o", "w", "s", "=">> \o IntToStr(result.Rows) \o <<"\n">>
      \o <<"c", "o", "l", "s", "=">> \o IntToStr(result.Colu) \o <<"\n">>
      \o str(result)

-----------------------------------------------------------------------------
(* SpecAlgebra: the arithmetic as functions of its operands.  The operands *)
(* are drawn from the matrices the parser and the setter can build: every  *)
(* stored value is non-zero, and a key may lie outside Rows x Colu, since  *)
(* neither read_from_file nor setElement checks it.                        *)

Coords == (0..MaxCoord) \X (0..MaxCoord)

Dicts == UNION {[S -> Vals] : S \in {T \in SUBSET Coords : Cardinality(T) \in NnzRange}}

InputMatrices ==
    {[Rows |-> r, Colu |-> c, elements |-> e] : r \in Dims, c \in Dims, e \in Dicts}

\* Third operands of a product chain: at most one stored entry, a 1.
ThirdMatrices ==
    {m \in InputMatrices : /\ Cardinality(DOMAIN m.elements) <= 1
                           /\ \A key \in DOMAIN m.elements : m.elements[key] = 1}

AlgStart == [step |-> "start", out |-> Returned(NoMatrix), prev |-> Returned(NoMatrix),
             third |-> NoMatrix, right |-> Returned(NoMatrix)]

InitAlgebra ==
    /\ opA \in InputMatrices
    /\ opB \in InputMatrices
    /\ alg = AlgStart
    /\ txtA = Unused /\ txtB = Unused /\ txt = Unused
    /\ processor = Unused /\ fs = Unused /\ last = Unused
    /\ objects = Unused /\ log = Unused /\ made = Unused

\* result = opA.add(opB)
Add ==
    /\ alg.step = "start"
    /\ alg' = [alg EXCEPT !.step = "add", !.out = addOf(opA, opB)]
    /\ UNCHANGED <<opA, opB>>
    /\ UNCHANGED notAlgebra

\* result = opA.subtract(opB)
Subtract ==
    /\ alg.step = "start"
    /\ alg' = [alg EXCEPT !.step = "subtract", !.out = subtractOf(opA, opB)]
    /\ UNCHANGED <<opA, opB>>
    /\ UNCHANGED notAlgebra

\* result = opA.multiply(opB)
Multiply ==
    /\ alg.step = "start"
    /\ alg' = [alg EXCEPT !.step = "multiply", !.out = multiplyOf(opA, opB)]
    /\ UNCHANGED <<opA, opB>>
    /\ UNCHANGED notAlgebra

\* opA.add(opB).subtract(opB), once the sum has been returned
SubtractBack ==
    /\ alg.step = "add"
    /\ alg.out.err = NoError
    /\ alg' = [alg EXCEPT !.step = "add-subtract", !.prev = alg.out,
                          !.out = subtractOf(alg.out.result, opB)]
    /\ UNCHANGED <<opA, opB>>
    /\ UNCHANGED notAlgebra

\* The chain a.multiply(b.multiply(c)).
ChainRight(a, b, c) ==
    LET bc == multiplyOf(b, c)
    IN IF bc.err # NoError THEN bc ELSE multiplyOf(a, bc.result)

\* opA.multiply(opB).multiply(c) and opA.multiply(opB.multiply(c)), for a c
\* with as many rows as opB has columns
MultiplyThird ==
    /\ alg.step = "multiply"
    /\ alg.out.err = NoError
    /\ \E c \in {m \in ThirdMatrices : m.Rows = opB.Colu} :
        alg' = [alg EXCEPT !.step = "chain", !.prev = alg.out, !.third = c,
                           !.out = multiplyOf(alg.out.result, c),
                           !.right = ChainRight(opA, opB, c)]
    /\ UNCHANGED <<opA, opB>>
    /\ UNCHANGED notAlgebra

NextAlgebra == Add \/ Subtract \/ Multiply \/ SubtractBack \/ MultiplyThird

SpecAlgebra == InitAlgebra /\ [][NextAlgebra]_vars

-----------------------------------------------------------------------------
(* Claims checked under SpecAlgebra *)

SameDimensions == opA.Rows = opB.Rows /\ opA.Colu = opB.Colu

\* C2: for A and B of the same Rows and Colu, add(A, B) returns, and
\* subtracting B from that sum returns a matrix with the Rows, the Colu and
\* exactly the stored entries of A.
C2_AddThenSubtractIsA ==
    /\ (alg.step = "add" /\ SameDimensions) => alg.out.err = NoError
    /\ alg.step = "add-subtract" =>
          /\ SameDimensions
          /\ alg.out.err = NoError
          /\ alg.out.result.Rows = opA.Rows
          /\ alg.out.result.Colu = opA.Colu
          /\ alg.out.result.elements = opA.elements

\* C2's case: the sum lost a key of A to cancellation, B holds a key A does
\* not, and the subtraction has run.
C2_Witness ==
    /\ alg.step = "add-subtract"
    /\ \E k \in DOMAIN opA.elements :
          k \in DOMAIN opB.elements /\ k \notin DOMAIN alg.prev.result.elements
    /\ \E k \in DOMAIN opB.elements : k \notin DOMAIN opA.elements

\* The sum of a[i, k] * b[k, j] over the columns k in ks.
RECURSIVE DotOver(_, _, _, _, _)
DotOver(a, b, i, j, ks) ==
    IF ks = {} THEN 0
    ELSE LET k == CHOOSE x \in ks : TRUE
         IN getElement(a, i, k) * getElement(b, k, j) + DotOver(a, b, i, j, ks \ {k})

\* The occupied columns of row i of a.
OccupiedColumns(a, i) == {key[2] : key \in {x \in DOMAIN a.elements : x[1] = i}}

\* Rows an operand of the model can hold an entry in.
RowRange == 0..MaxCoord

\* C3: for A.Colu = B.Rows, multiply(A, B) returns a matrix of A.Rows by
\* B.Colu whose value at every (i, j), j in [0, B.Colu), is the sum over the
\* occupied (i, k) of A of A[i, k] * B[k, j]; it stores nothing elsewhere
\* and stores no zero.
C3_MultiplyIsRowByColumn ==
    (alg.step = "multiply" /\ opA.Colu = opB.Rows) =>
        /\ alg.out.err = NoError
        /\ alg.out.result.Rows = opA.Rows
        /\ alg.out.result.Colu = opB.Colu
        /\ \A i \in RowRange : \A j \in 0..(opB.Colu - 1) :
              getElement(alg.out.result, i, j)
                = DotOver(opA, opB, i, j, OccupiedColumns(opA, i))
        /\ \A key \in DOMAIN alg.out.result.elements :
              /\ key[1] \in RowRange
              /\ key[2] \in 0..(opB.Colu - 1)
              /\ alg.out.result.elements[key] # 0

\* C3's case: a row of A with two occupied columns whose products at one
\* column of B are both non-zero and cancel, so that nothing is stored there.
C3_Witness ==
    /\ alg.step = "multiply"
    /\ alg.out.err = NoError
    /\ \E i \in RowRange : \E j \in 0..(opB.Colu - 1) :
          /\ Cardinality(OccupiedColumns(opA, i)) = 2
          /\ \A k \in OccupiedColumns(opA, i) : getElement(opB, k, j) # 0
          /\ <<i, j>> \notin DOMAIN alg.out.result.elements

\* The same Rows, the same Colu and the same value at every coordinate.
SameMatrix(m, n) ==
    /\ m.Rows = n.Rows
    /\ m.Colu = n.Colu
    /\ \A key \in (DOMAIN m.elements) \cup (DOMAIN n.elements) :
          getElement(m, key[1], key[2]) = getElement(n, key[1], key[2])

\* C4: for A.Colu = B.Rows and B.Colu = C.Rows, multiply(multiply(A, B), C)
\* and multiply(A, multiply(B, C)) both return and are the same matrix.
C4_ProductChainsAgree ==
    (alg.step = "chain" /\ opA.Colu = opB.Rows /\ opB.Colu = alg.third.Rows) =>
        /\ alg.out.err = NoError
        /\ alg.right.err = NoError
        /\ SameMatrix(alg.out.result, alg.right.result)

InBounds(m) ==
    \A key \in DOMAIN m.elements : key[1] \in 0..(m.Rows - 1) /\ key[2] \in 0..(m.Colu - 1)

\* Beside C4: the two chains agree whenever every key of B and of C lies
\* inside the declared Rows x Colu.
C4_ChainsAgreeInBounds ==
    (alg.step = "chain" /\ opA.Colu = opB.Rows /\ opB.Colu = alg.third.Rows
       /\ InBounds(opB) /\ InBounds(alg.third)) =>
        /\ alg.out.err = NoError
        /\ alg.right.err = NoError
        /\ SameMatrix(alg.out.result, alg.right.result)

\* C5: add and subtract raise the dimension error exactly when Rows or Colu
\* differ, multiply exactly when A.Colu differs from B.Rows; a call that
\* raises returns no matrix, and every other call returns one without error.
C5_DimensionErrorExactly ==
    /\ alg.step = "add" =>
          /\ (alg.out.err = AddMismatch) <=> ~SameDimensions
          /\ alg.out.err \in {AddMismatch, NoError}
    /\ alg.step = "subtract" =>
          /\ (alg.out.err = SubtractMismatch) <=> ~SameDimensions
          /\ alg.out.err \in {SubtractMismatch, NoError}
    /\ alg.step = "multiply" =>
          /\ (alg.out.err = MultiplyMismatch) <=> (opA.Colu # opB.Rows)
          /\ alg.out.err \in {MultiplyMismatch, NoError}
    /\ alg.step \in {"add", "subtract", "multiply"} =>
          (alg.out.result = NoMatrix) <=> (alg.out.err # NoError)

\* C5's case: a product that raised although Rows and Colu of the operands
\* agree (both 1 x 2), so that add and subtract of the same pair return.
C5_Witness ==
    /\ alg.step = "multiply"
    /\ alg.out.err = MultiplyMismatch
    /\ SameDimensions

-----------------------------------------------------------------------------
(* SpecText: parsing a text, combining what was parsed, writing the matrix *)
(* as process_file writes it and parsing what was written.  The texts are  *)
(* two header lines followed by up to MaxLines entry lines, and texts      *)
(* whose header is missing or garbled.                                     *)

\* Entry lines of an input text.
MaxLines == 2

\* Entry lines: triples the format allows, blank lines, and lines it does not allow.
EntryLines ==
    { <<"(", "0", ",", " ", "0", ",", " ", "1", ")">>,
      <<"(", "1", ",", "1", ",", "-", "2", ")">>,
      <<"(", "0", ",", " ", "1", ",", " ", " ", "-", "1", "2", ")">>,
      <<"(", "0", ",", " ", "0", ",", " ", "0", ")">>,
      <<>>,
      <<" ", "\t">>,
      <<" ", " ", "(", "1", ",", " ", "0", ",", " ", "3", ")", " ">>,
      <<"(", "0", ",", " ", "0", ",", " ", "1", ")", "x">>,
      <<"x", "(", "0", ",", " ", "0", ",", " ", "1", ")">>,
      <<"(", "0", " ", ",", " ", "0", ",", " ", "1", ")">>,
      <<"(", "0", ",", " ", "0", ")">>,
      <<"(", "-", "1", ",", " ", "0", ",", " ", "1", ")">>,
      <<"(", "0", ",", " ", "0", ",", " ", "+", "1", ")">>,
      <<"(", "0", ",", " ", "0", ",", " ", "1">> }

\* Two header lines int() accepts.
GoodHeaders ==
    { <<"r", "o", "w", "s", "=", "2", "\n", "c", "o", "l", "s", "=", "2", "\n">>,
      <<"r", "o", "w", "s", "=", "1", "\n", "c", "o", "l", "s", "=", "2", "\n">>,
      <<"r", "o", "w", "s", "=", " ", "2", "\n", "c", "o", "l", "s", "=", "-", "1", " ", "\n">> }

\* Texts whose header read raises.
BadTexts ==
    { <<>>,
      <<"r", "o", "w", "s", "=", "2", "\n">>,
      <<"r", "o", "w", "s", "\n", "c", "o", "l", "s", "=", "2", "\n">>,
      <<"r", "o", "w", "s", "=", "2", "\n", "c", "o", "l", "s", "=", "x", "\n", "(", "0", ",", " ", "0", ",", " ", "1", ")", "\n">> }

\* Texts of the second operand.
OtherTexts ==
    { <<"r", "o", "w", "s", "=", "2", "\n", "c", "o", "l", "s", "=", "2", "\n", "(", "0", ",", " ", "0", ",", " ", "-", "1", ")", "\n", "(", "1", ",", " ", "1", ",", " ", "2", ")", "\n">>,
      <<"r", "o", "w", "s", "=", "2", "\n", "c", "o", "l", "s", "=", "2", "\n", "(", "0", ",", " ", "1", ",", " ", "1", "2", ")", "\n", "\n", "(", "1", ",", " ", "0", ",", " ", "1", ")">>,
      <<"r", "o", "w", "s", "=", "1", "\n", "c", "o", "l", "s", "=", "2", "\n", "(", "0", ",", " ", "0", ",", " ", "3", ")", "\n">> }

\* The lines of a body, each ended by "\n".
RECURSIVE Body(_)
Body(ls) == IF ls = <<>> THEN <<>> ELSE ls[1] \o <<"\n">> \o Body(Tail(ls))

Bodies == UNION {[1..n -> EntryLines] : n \in 0..MaxLines}

InputTexts == {h \o Body(b) : h \in GoodHeaders, b \in Bodies} \cup BadTexts \cup {NoFile}

\* if operation == 'add': ... elif 'subtract': ... elif 'multiply': ... else: raise
dispatch(self, other, operation) ==
    IF operation = "add" THEN addOf(self, other)
    ELSE IF operation = "subtract" THEN subtractOf(self, other)
    ELSE IF operation = "multiply" THEN multiplyOf(self, other)
    ELSE Raised(InvalidOperation)

NotRead == [self |-> SparseMatrixInit, err |-> NoError]

TxtStart == [step |-> "start", a |-> NotRead, b |-> NotRead, how |-> "none",
             m |-> NoMatrix, out |-> <<>>, back |-> NotRead]

InitText ==
    /\ txtA \in InputTexts
    /\ txtB \in OtherTexts
    /\ txt = TxtStart
    /\ opA = Unused /\ opB = Unused /\ alg = Unused
    /\ processor = Unused /\ fs = Unused /\ last = Unused
    /\ objects = Unused /\ log = Unused /\ made = Unused

\* a = SparseMatrix(); a.read_from_file(txtA); the same for b and txtB
ReadInputs ==
    /\ txt.step = "start"
    /\ txt' = [txt EXCEPT !.step = "read",
                          !.a = read_from_file(SparseMatrixInit, txtA),
                          !.b = read_from_file(SparseMatrixInit, txtB)]
    /\ UNCHANGED <<txtA, txtB>>
    /\ UNCHANGED notText

\* The matrix to write is the one parsed from txtA.
KeepParsed ==
    /\ txt.step = "read"
    /\ txt.a.err = NoError
    /\ txt' = [txt EXCEPT !.step = "matrix", !.how = "parsed", !.m = txt.a.self]
    /\ UNCHANGED <<txtA, txtB>>
    /\ UNCHANGED notText

\* The matrix to write is a.add(b), a.subtract(b) or a.multiply(b).
Combine ==
    /\ txt.step = "read"
    /\ txt.a.err = NoError
    /\ txt.b.err = NoError
    /\ \E operation \in {"add", "subtract", "multiply"} :
          /\ dispatch(txt.a.self, txt.b.self, operation).err = NoError
          /\ txt' = [txt EXCEPT !.step = "matrix", !.how = operation,
                                !.m = dispatch(txt.a.self, txt.b.self, operation).result]
    /\ UNCHANGED <<txtA, txtB>>
    /\ UNCHANGED notText

\* The three writes of process_file.
WriteOut ==
    /\ txt.step = "matrix"
    /\ txt' = [txt EXCEPT !.step = "written", !.out = writeResult(txt.m)]
    /\ UNCHANGED <<txtA, txtB>>
    /\ UNCHANGED notText

\* again = SparseMatrix(); again.read_from_file(what was written)
ReadBack ==
    /\ txt.step = "written"
    /\ txt' = [txt EXCEPT !.step = "back",
                          !.back = read_from_file(SparseMatrixInit, txt.out)]
    /\ UNCHANGED <<txtA, txtB>>
    /\ UNCHANGED notText

NextText == ReadInputs \/ KeepParsed \/ Combine \/ WriteOut \/ ReadBack

SpecText == InitText /\ [][NextText]_vars

-----------------------------------------------------------------------------
(* Claims checked under SpecText *)

AllIn(s, set) == \A i \in 1..Len(s) : s[i] \in set

\* Optional white space, then what follows it.
SpaceThen(s, P(_)) ==
    \E n \in 0..Len(s) : AllIn(SubSeq(s, 1, n), RegexSpace) /\ P(SubSeq(s, n + 1, Len(s)))

Natural(s) == s # <<>> /\ AllIn(s, Digits)

Integer(s) == Natural(s) \/ (Len(s) >= 2 /\ s[1] = "-" /\ Natural(Tail(s)))

\* The whole of line is a triple (row, col, value): row and col non-negative
\* integers, value an integer with an optional "-", white space allowed
\* after each comma.
WholeTriple(line) ==
    /\ Len(line) >= 2
    /\ line[1] = "("
    /\ line[Len(line)] = ")"
    /\ \E c1, c2 \in 2..Len(line) :
          /\ c1 < c2
          /\ line[c1] = ","
          /\ line[c2] = ","
          /\ Natural(SubSeq(line, 2, c1 - 1))
          /\ SpaceThen(SubSeq(line, c1 + 1, c2 - 1), Natural)
          /\ SpaceThen(SubSeq(line, c2 + 1, Len(line) - 1), Integer)

\* The text has two header lines that int() reads.
HeaderReads(text) ==
    /\ text # NoFile
    /\ Len(readlines(text)) >= 2
    /\ HeaderInt(readlines(text)[1]).ok
    /\ HeaderInt(readlines(text)[2]).ok

\* Some non-blank line after the header is not a whole triple.
SomeLineNotATriple(text) ==
    \E n \in 3..Len(readlines(text)) :
        /\ strip(readlines(text)[n]) # <<>>
        /\ ~WholeTriple(strip(readlines(text)[n]))

\* C7: after two header lines that read, parsing raises the format error
\* exactly when some non-blank line is not, as a whole line, a triple
\* (row, col, value); blank lines are skipped.
C7_NonTripleLineRaises ==
    (txt.step # "start" /\ HeaderReads(txtA)) =>
        /\ txt.a.err \in {NoError, FormatError}
        /\ (txt.a.err = FormatError) <=> SomeLineNotATriple(txtA)

\* Beside C7: parsing raises exactly when some non-blank line does not
\* start with a triple.
C7_NonMatchingLineRaises ==
    (txt.step # "start" /\ HeaderReads(txtA)) =>
        /\ txt.a.err \in {NoError, FormatError}
        /\ (txt.a.err = FormatError) <=>
              \E n \in 3..Len(readlines(txtA)) :
                  /\ strip(readlines(txtA)[n]) # <<>>
                  /\ \A k \in 1..Len(strip(readlines(txtA)[n])) :
                        ~WholeTriple(SubSeq(strip(readlines(txtA)[n]), 1, k))

\* C8: a matrix that was parsed, or returned by add, subtract or multiply on
\* parsed matrices, written as process_file writes it and parsed again, is
\* read without error and has the same Rows, Colu and stored entries.
C8_WriteThenReadIsSame ==
    txt.step = "back" =>
        /\ txt.back.err = NoError
        /\ txt.back.self.Rows = txt.m.Rows
        /\ txt.back.self.Colu = txt.m.Colu
        /\ txt.back.self.elements = txt.m.elements

\* C8's case: a product of parsed matrices with two stored entries, one of
\* them negative with two digits, was written and read back.
C8_Witness ==
    /\ txt.step = "back"
    /\ txt.how = "multiply"
    /\ Cardinality(DOMAIN txt.m.elements) >= 2
    /\ \E key \in DOMAIN txt.m.elements : txt.m.elements[key] < -9

\* C8's other case: a matrix with no stored entry was written and read back.
C8_WitnessEmpty ==
    /\ txt.step = "back"
    /\ txt.m.elements = EmptyDict

-----------------------------------------------------------------------------
(* process_file, and SpecPipeline: one SparseMatrix, the processor, on     *)
(* which the batch driver calls process_file again and again.  fs maps a   *)
(* path to the content of the file there (NoFile when there is none).      *)

\* A process_file that opens the output file before it reads its inputs.
process_fileOpensFirst(self, disk, input_file_path, output_file_path, operation, other_matrix_file_path) ==
    LET opened == [disk EXCEPT ![output_file_path] = <<>>]
        first == read_from_file(self, opened[input_file_path])
        second == read_from_file(SparseMatrixInit, opened[other_matrix_file_path])
        call == dispatch(first.self, second.self, operation)
    IN IF first.err # NoError
       THEN [self |-> first.self, disk |-> opened, err |-> first.err, result |-> NoMatrix]
       ELSE IF second.err # NoError
            THEN [self |-> first.self, disk |-> opened, err |-> second.err, result |-> NoMatrix]
            ELSE IF call.err # NoError
                 THEN [self |-> first.self, disk |-> opened, err |-> call.err,
                       result |-> NoMatrix]
                 ELSE [self |-> first.self,
                       disk |-> [disk EXCEPT ![output_file_path] = writeResult(call.result)],
                       err |-> NoError,
                       result |-> call.result]

\* SparseMatrix.process_file: self and the files after the call, the error
\* raised, and the matrix written.  The output file is opened once the
\* operation has returned.
process_file(self, disk, input_file_path, output_file_path, operation, other_matrix_file_path) ==
    LET first == read_from_file(self, disk[input_file_path])
        second == read_from_file(SparseMatrixInit, disk[other_matrix_file_path])
        call == dispatch(first.self, second.self, operation)
    IN IF first.err # NoError
       THEN [self |-> first.self, disk |-> disk, err |-> first.err, result |-> NoMatrix]
       ELSE IF second.err # NoError
            THEN [self |-> first.self, disk |-> disk, err |-> second.err, result |-> NoMatrix]
            ELSE IF call.err # NoError
                 THEN [self |-> first.self, disk |-> disk, err |-> call.err,
                       result |-> NoMatrix]
                 ELSE [self |-> first.self,
                       disk |-> [disk EXCEPT ![output_file_path] = writeResult(call.result)],
                       err |-> NoError,
                       result |-> call.result]

InputPaths == {"first.txt", "wide.txt", "partial.txt", "missing.txt"}

OutputPaths == {"results.txt"}

\* The operation names the driver passes, and one that is none of them.
Operations == {"add", "subtract", "multiply", "divide"}

\* The input files: first.txt, the first matrix of the spec's worked example;
\* wide.txt, two rows and three columns;
\* partial.txt, an entry line that does not match, after one that does; no file at missing.txt.
InputFiles ==
    ("first.txt" :> <<"r", "o", "w", "s", "=", "2", "\n", "c", "o", "l", "s", "=", "2", "\n", "(", "0", ",", " ", "0", ",", " ", "1", ")", "\n", "(", "1", ",", " ", "1", ",", " ", "2", ")">>)
    @@ ("wide.txt" :> <<"r", "o", "w", "s", "=", "2", "\n", "c", "o", "l", "s", "=", "3", "\n", "(", "1", ",", " ", "2", ",", " ", "-", "1", ")", "\n">>)
    @@ ("partial.txt" :> <<"r", "o", "w", "s", "=", "3", "\n", "c", "o", "l", "s", "=", "3", "\n", "(", "2", ",", " ", "2", ",", " ", "5", ")", "\n", "(", "2", ",", " ", "2", "\n">>)
    @@ ("missing.txt" :> NoFile)

\* reused: the processor held, when the call was made, entries that a call
\* which raised while parsing had left in it.
NoCall == [called |-> FALSE, input |-> "", output |-> "", operation |-> "", other |-> "",
           reused |-> FALSE, err |-> NoError, result |-> NoMatrix]

\* sparse_matrix_processor = SparseMatrix(), and no output file yet
InitPipeline ==
    /\ processor = SparseMatrixInit
    /\ fs = InputFiles @@ [path \in OutputPaths |-> NoFile]
    /\ last = NoCall
    /\ opA = Unused /\ opB = Unused /\ alg = Unused
    /\ txtA = Unused /\ txtB = Unused /\ txt = Unused
    /\ objects = Unused /\ log = Unused /\ made = Unused

\* sparse_matrix_processor.process_file(input, output, operation, other),
\* the ValueError caught by the driver
ProcessFile ==
    /\ \E input \in InputPaths, other \in InputPaths, output \in OutputPaths,
          operation \in Operations :
          LET done == process_file(processor, fs, input, output, operation, other)
          IN /\ processor' = done.self
             /\ fs' = done.disk
             /\ last' = [called |-> TRUE, input |-> input, output |-> output,
                         operation |-> operation, other |-> other,
                         reused |-> (last.err = FormatError
                                       /\ processor.elements # EmptyDict),
                         err |-> done.err, result |-> done.result]
    /\ UNCHANGED notPipeline

NextPipeline == ProcessFile

SpecPipeline == InitPipeline /\ [][NextPipeline]_vars

-----------------------------------------------------------------------------
(* Claims checked under SpecPipeline *)

\* C9: a process_file call that raises (format error, dimension mismatch,
\* invalid operation) leaves every file as it was: the output file is not
\* created, truncated or written.
C9_NoOutputWhenRaised ==
    [][(last'.called /\ last'.err # NoError) => fs' = fs]_vars

\* C9's case: a call with an operation name that is not accepted raised,
\* and the output file it names still holds what an earlier call wrote.
C9_Witness ==
    /\ last.called
    /\ last.err = InvalidOperation
    /\ fs[last.output] # NoFile

\* The call last made, on a freshly constructed processor.
OnFresh == process_file(SparseMatrixInit, fs, last.input, last.output, last.operation,
                        last.other)

\* C10: whatever calls came before on the same processor, a process_file
\* call raises the error, or writes the Rows, Colu and entries, that it
\* does on a freshly constructed processor.
C10_ReuseIsFresh ==
    last.called =>
        LET fresh == OnFresh
        IN /\ last.err = fresh.err
           /\ last.result = fresh.result
           /\ fs = fresh.disk
           /\ last.err = NoError => fs[last.output] = writeResult(fresh.result)

\* C10's case: a call returned, with entries in its result, on a processor
\* in which the call before it, failed part-way through parsing, had left
\* a stored entry.
C10_Witness ==
    /\ last.called
    /\ last.reused
    /\ last.err = NoError
    /\ last.result.elements # EmptyDict

-----------------------------------------------------------------------------
(* Spec: SparseMatrix objects and the calls a program makes on them, in    *)
(* any order: construction, read_from_file, setElement, add, subtract and  *)
(* multiply.  log records the last call; made maps each object an          *)
(* arithmetic call returned to the operands it was made from.              *)

\* Ids constructed or returned in one run; every arithmetic call that
\* returns takes one.
MaxObjects == 3

\* Calls of read_from_file and setElement made in one run.
MaxCalls == 2

\* The arguments setElement is called with: a zero on a key first.txt
\* stores, the opposite of a value first.txt stores, and a key beyond the
\* Rows x Colu of every input file.
SetArguments == {<<0, 0, 0>>, <<1, 1, -2>>, <<5, 0, 3>>}

\* The files read_from_file is called on: one it reads, one it raises on
\* after storing an entry.
ReadPaths == {"first.txt", "partial.txt"}

NoCallYet == [op |-> "none", self |-> 0, other |-> 0, err |-> NoError, result |-> 0,
              n |-> 0]

Init ==
    /\ objects = <<>>
    /\ log = NoCallYet
    /\ made = <<>>
    /\ opA = Unused /\ opB = Unused /\ alg = Unused
    /\ txtA = Unused /\ txtB = Unused /\ txt = Unused
    /\ processor = Unused /\ fs = Unused /\ last = Unused

Ids == 1..Len(objects)

NoOperands == [self |-> 0, other |-> 0]

\* m = SparseMatrix()
Construct ==
    /\ Len(objects) < MaxObjects
    /\ objects' = Append(objects, SparseMatrixInit)
    /\ made' = Append(made, NoOperands)
    /\ log' = [NoCallYet EXCEPT !.op = "construct", !.result = Len(objects) + 1,
                                !.n = log.n]
    /\ UNCHANGED notObjects

\* objects[self].read_from_file(path), whether it returns or raises
ReadFromFile ==
    /\ log.n < MaxCalls
    /\ \E self \in Ids, path \in ReadPaths :
        LET read == read_from_file(objects[self], InputFiles[path])
        IN /\ objects' = [objects EXCEPT ![self] = read.self]
           /\ log' = [NoCallYet EXCEPT !.op = "read_from_file", !.self = self,
                                        !.err = read.err, !.n = log.n + 1]
    /\ UNCHANGED made
    /\ UNCHANGED notObjects

\* objects[self].setElement(currRow, currCol, value)
SetElement ==
    /\ log.n < MaxCalls
    /\ \E self \in Ids, args \in SetArguments :
        /\ objects' = [objects EXCEPT ![self] = setElement(@, args[1], args[2], args[3])]
        /\ log' = [NoCallYet EXCEPT !.op = "setElement", !.self = self,
                                     !.n = log.n + 1]
    /\ UNCHANGED made
    /\ UNCHANGED notObjects

\* objects, log and made after an arithmetic call.
Arithmetic(op, self, other, done) ==
    /\ objects' = done.heap
    /\ made' = IF Len(done.heap) > Len(objects)
               THEN Append(made, [self |-> self, other |-> other])
               ELSE made
    /\ log' = [op |-> op, self |-> self, other |-> other, err |-> done.err,
                result |-> done.result, n |-> log.n]
    /\ UNCHANGED notObjects

\* result = objects[self].add(objects[other]); self and other may be one object
AddCall ==
    /\ Len(objects) < MaxObjects
    /\ \E self \in Ids, other \in Ids :
        Arithmetic("add", self, other, add(objects, self, other))

\* result = objects[self].subtract(objects[other])
SubtractCall ==
    /\ Len(objects) < MaxObjects
    /\ \E self \in Ids, other \in Ids :
        Arithmetic("subtract", self, other, subtract(objects, self, other))

\* result = objects[self].multiply(objects[other])
MultiplyCall ==
    /\ Len(objects) < MaxObjects
    /\ \E self \in Ids, other \in Ids :
        Arithmetic("multiply", self, other, multiply(objects, self, other))

Next == Construct \/ ReadFromFile \/ SetElement \/ AddCall \/ SubtractCall \/ MultiplyCall

Spec == Init /\ [][Next]_vars

-----------------------------------------------------------------------------
(* Claims checked under Spec *)

\* C1: whatever calls were made, successful or failing, no object, operand
\* or result, stores the value 0.
C1_NoZeroStored ==
    \A o \in Ids : \A key \in DOMAIN objects[o].elements : objects[o].elements[key] # 0

\* C1's case: an addition or a subtraction returned a result that lacks a
\* key both of its operands store, the sum or difference there being 0, and
\* stores another.
C1_Witness ==
    /\ log.op \in {"add", "subtract"}
    /\ log.err = NoError
    /\ \E key \in DOMAIN objects[log.self].elements :
          /\ key \in DOMAIN objects[log.other].elements
          /\ key \notin DOMAIN objects[log.result].elements
    /\ objects[log.result].elements # EmptyDict

ArithmeticOps == {"add", "subtract", "multiply"}

\* C6: add, subtract and multiply, returning or raising, with two operands
\* or with one object as both, leave Rows, Colu and the entries of every
\* object that existed before the call as they were; what they return is a
\* new object, and a later setElement on a returned object changes no
\* other object.
C6_OperandsUnchanged ==
    [][/\ log'.op \in ArithmeticOps =>
             /\ \A o \in Ids : objects'[o] = objects[o]
             /\ log'.err # NoError => objects' = objects /\ log'.result = 0
             /\ log'.err = NoError =>
                   /\ log'.result \notin Ids
                   /\ log'.result \in 1..Len(objects')
       /\ \A r \in 1..Len(objects') :
             made'[r] # NoOperands => r \notin {made'[r].self, made'[r].other}
       /\ (log'.op = "setElement" /\ made[log'.self] # NoOperands) =>
             \A o \in Ids \ {log'.self} : objects'[o] = objects[o]]_vars

\* C6's case: an object that stores entries was added to itself, and the
\* returned object was then given, by setElement, a key the operand lacks.
C6_Witness ==
    /\ log.op = "setElement"
    /\ made[log.self] # NoOperands
    /\ made[log.self].self = made[log.self].other
    /\ objects[made[log.self].self].elements # EmptyDict
    /\ \E key \in DOMAIN objects[log.self].elements :
          key \notin DOMAIN objects[made[log.self].self].elements

=============================================================================
